---- MODULE Spec2Model ----
(***************************************************************************)
(* Model of the address tracker: the blockchair client, the Spanner        *)
(* tables "addresses" and "transactions", the handlers add, balance,       *)
(* transactions and sync, and the batch fetcher getTransactions.           *)
(*                                                                         *)
(* Transaction hashes are positive integers; the empty string is 0.        *)
(* Timestamps are integers read from the clock `clock`.                    *)
(***************************************************************************)
EXTENDS Integers, Sequences, FiniteSets, TLC

\* ---------------------------------------------------------------- bounds
MaxCalls == 3          \* handler calls in one behaviour
MaxClock == 1          \* the wall clock runs 0..MaxClock
MaxConfirms == 2       \* upstream changes (new transactions) in one behaviour
MaxDrops == 1          \* upstream transactions that disappear again
MaxFaults == 2         \* failed upstream responses in one behaviour
MaxInitTxns == 2       \* transactions an address has upstream at the start
MaxBalance == 1        \* upstream balances are 0..MaxBalance
MaxFetchIds == 25      \* longest id list handed to getTransactions directly
MaxFetchFaults == 3    \* failed upstream responses in SpecFetch
MaxConcCalls == 3      \* handler calls in one behaviour of SpecConc
MaxConcFaults == 1     \* failed upstream responses in SpecConc
MaxAcrossCalls == 3    \* handler calls in one behaviour of SpecAcross
MaxAcrossFaults == 1   \* failed upstream responses in SpecAcross
MaxDetectTxns == 3     \* longest request handed to detectTransfers
MaxDetectTime == 2     \* timestamps of a request are minutes 0..MaxDetectTime
MaxClientIds == 12     \* longest id list handed to the client and to getTransactions
MaxClientFaults == 2   \* failed upstream responses in SpecClient

\* ------------------------------------------------------ program constants
TransactionLimit == 50     \* blockchair.TransactionLimit
BatchSize == 10            \* chunk size of getTransactions
HashLimit == 10            \* guard of GetTransactionsByHashes
StatusThrottled == 402     \* blockchair's "limit reached" status
NoHash == 0                \* the empty string as a transaction hash

Addrs == {"a1", "a2"}
Contended == {"a1"}    \* the address the callers of Spec work on
Procs == {"p1", "p2"}
Ops == {"add", "balance", "transactions", "sync"}

VARIABLES
    addresses,      \* table "addresses": set of AddressesRecord rows
    transactions,   \* table "transactions": set of TransactionsRecord rows
    upstream,       \* blockchair's view of every address
    clock,          \* time.Now()
    proc,           \* the handler call every caller is in
    lastSnap,       \* per address: the snapshot seen by the last committed sync
    budget,         \* what is left of the bounds: calls, confirms, drops, faults
    detect          \* the request to /detect-transfer and its answer

vars == <<addresses, transactions, upstream, clock, proc, lastSnap, budget, detect>>

\* ---------------------------------------------------------------- helpers
Min(a, b) == IF a < b THEN a ELSE b

Max(S) == CHOOSE x \in S : \A y \in S : y <= x

RECURSIVE Desc(_)
\* the elements of a set of integers, largest first
Desc(S) == IF S = {} THEN <<>> ELSE <<Max(S)>> \o Desc(S \ {Max(S)})

Range(s) == {s[i] : i \in 1..Len(s)}

\* s[lo:hi] of Go, 0-based, hi exclusive
Slice(s, lo, hi) == SubSeq(s, lo + 1, hi)

\* --------------------------------------------------------------- upstream
\* The provider's view of an address: the hashes 1..issued that were not
\* dropped again, newest (largest) first, and a balance.
LiveHashes(u) == (1..u.issued) \ u.dropped

\* GetAddressStats: the newest TransactionLimit hashes and the balance
AddressStats(u) ==
    LET all == Desc({h \in LiveHashes(u) :
                       h > u.issued - TransactionLimit - Cardinality(u.dropped)})
    IN  [balance |-> u.balance,
         txns |-> SubSeq(all, 1, Min(Len(all), TransactionLimit))]

NoStats == [balance |-> 0, txns |-> <<>>]

\* A response of the provider: status 0 stands for a transport error of
\* http.Get; the body is the requested data, a JSON envelope without data
\* (an error envelope, or an answer that lacks the requested entry), or not
\* JSON at all.
OKResponse == [status |-> 200, body |-> "data"]

\* no request was sent yet
NoResponse == [status |-> 0, body |-> "unsent"]

Responses ==
    {OKResponse, [status |-> 0, body |-> "none"], [status |-> 200, body |-> "nodata"]}
    \cup [status : {StatusThrottled, 500}, body : {"nodata", "garbage"}]

\* ----------------------------------------------------------------- tables
NoAddress == [public_key |-> "", balance |-> 0, created_at |-> 0,
              updated_at |-> 0, last_txn_hash |-> NoHash]

AddressKey(r) == r.public_key

\* the hash alone as the key of the transactions table
TransactionKeyHashOnly(r) == r.txn_hash

TransactionKey(r) == <<r.txn_hash, r.public_key>>

\* the detail blockchair returns for a hash
AmountUSD(h) == h * 100

TransactionsRecord(h, a, t) ==
    [txn_hash |-> h, public_key |-> a, amount |-> AmountUSD(h), created_at |-> t]

\* the cursor taken from the other end of the list
AddressesRecordOldestCursor(a, stats, t) ==
    [public_key |-> a, balance |-> stats.balance, created_at |-> t,
     updated_at |-> t, last_txn_hash |-> stats.txns[Len(stats.txns)]]

AddressesRecord(a, stats, t) ==
    [public_key |-> a, balance |-> stats.balance, created_at |-> t,
     updated_at |-> t, last_txn_hash |-> stats.txns[1]]

AddressRows(a) == {r \in addresses : r.public_key = a}

TransactionRows(a) == {r \in transactions : r.public_key = a}

\* the transaction rows are written with an upsert
InsertAsUpsert(row) == [op |-> "InsertOrUpdate", row |-> row]

\* spanner.InsertStruct / spanner.InsertOrUpdateStruct
Insert(row) == [op |-> "Insert", row |-> row]

InsertOrUpdate(row) == [op |-> "InsertOrUpdate", row |-> row]

NoMutations == [transactions |-> {}, addresses |-> {}]

\* the primary key of a row of either table
Key(r) == IF "txn_hash" \in DOMAIN r THEN TransactionKey(r) ELSE AddressKey(r)

\* the Insert mutations that hit a row which is already stored
AlreadyExists(table, muts) ==
    {m \in muts : m.op = "Insert" /\ \E r \in table : Key(r) = Key(m.row)}

\* the table after the mutations were applied
Applied(table, muts) ==
    {r \in table : ~ \E m \in muts : Key(m.row) = Key(r)} \cup {m.row : m \in muts}

\* ------------------------------------------------------------------- sync
\* the scan with the cut one place late: the cursor itself stays in the list
TxnHashesKeepCursor(txns, lastTxnHash) ==
    IF lastTxnHash # NoHash /\ \E i \in 1..Len(txns) : txns[i] = lastTxnHash
    THEN LET i == CHOOSE j \in 1..Len(txns) : txns[j] = lastTxnHash
         IN  Slice(txns, 0, i)
    ELSE txns

\* the scan cutting at the last place instead of the place of the cursor
TxnHashesCutAtEnd(txns, lastTxnHash) ==
    IF lastTxnHash # NoHash /\ \E i \in 1..Len(txns) : txns[i] = lastTxnHash
    THEN Slice(txns, 0, Len(txns) - 1)
    ELSE txns

\* main.go 469-480: the hashes in front of the cursor, or the whole page
TxnHashes(txns, lastTxnHash) ==
    IF lastTxnHash # NoHash /\ \E i \in 1..Len(txns) : txns[i] = lastTxnHash
    THEN LET i == CHOOSE j \in 1..Len(txns) :
                    /\ txns[j] = lastTxnHash
                    /\ \A k \in 1..(j - 1) : txns[k] # lastTxnHash
         IN  Slice(txns, 0, i - 1)
    ELSE txns

RECURSIVE BatchesFrom(_, _)
BatchesFrom(txnHashes, i) ==
    IF i >= Len(txnHashes) THEN <<>>
    ELSE LET end == IF i + BatchSize > Len(txnHashes) THEN Len(txnHashes)
                    ELSE i + BatchSize
         IN  <<Slice(txnHashes, i, end)>> \o BatchesFrom(txnHashes, i + BatchSize)

\* the chunking that forgets the last, shorter chunk
BatchesFullOnly(txnHashes) ==
    [i \in 1..(Len(txnHashes) \div BatchSize) |->
        SubSeq(txnHashes, BatchSize * (i - 1) + 1, BatchSize * i)]

\* main.go 619-629: the list cut into chunks of 10
Batches(txnHashes) == BatchesFrom(txnHashes, 0)

\* the guard that lets every list through
TooManyNever(hashes) == FALSE

\* client.go 135-137: the guard of GetTransactionsByHashes
TooMany(hashes) == Len(hashes) > HashLimit

\* client.go 154: the status that makes the client wait and ask again
Retried(status) == status = StatusThrottled

\* the retry reads into a shadowed variable: body stays the first body
RetryBodyShadowed(first, second) == first.body

\* client.go 165: after the retry, body is the body of the second response
RetryBody(first, second) == second.body

\* client.go 171-177: json.Unmarshal of a response body into the hash map
Decode(body, hashes) ==
    CASE body = "data" -> [err |-> "", data |-> Range(hashes)]
      [] body = "nodata" -> [err |-> "", data |-> {}]
      [] OTHER -> [err |-> "unmarshal", data |-> {}]

\* ---------------------------------------------------------------- callers
\* `before` records, for the properties, the snapshot that the last committed
\* sync of the address had seen when the call read its own snapshot; `runs`
\* counts the runs of the callback that ReadWriteTransaction has started,
\* `buffered` the calls of txn.BufferWrite in the current run
NoSnap == [balance |-> 0, txns |-> <<>>, synced |-> FALSE]

IdleProc ==
    [pc |-> "idle", op |-> "none", addr |-> "", lastTxnHash |-> NoHash,
     reads |-> [addresses |-> {}, transactions |-> {}],
     txnsRecs |-> {}, now |-> 0, addrStats |-> NoStats, txnHashes |-> <<>>,
     batch |-> 0, txns |-> {}, reqLog |-> <<>>, mutations |-> NoMutations,
     address |-> NoAddress, newTxns |-> {}, err |-> "", before |-> NoSnap,
     runs |-> 0, buffered |-> 0, statsResp |-> NoResponse, cancelled |-> FALSE]

\* a map[string]string: nil or made, with its entries <<key, value>>
NilMap == [nil |-> TRUE, entries |-> {}]

\* nobody has called /detect-transfer
\* (`input` keeps the transactions in the order of the request)
NoDetect == [pc |-> "idle", txns |-> <<>>, resp |-> NilMap, err |-> "", input |-> <<>>]

\* the server has started: empty tables, nobody calls yet
Started ==
    /\ addresses = {}
    /\ transactions = {}
    /\ \E n \in 0..MaxInitTxns :
         upstream = [a \in Addrs |-> [issued |-> n, dropped |-> {}, balance |-> 0]]
    /\ clock = 0
    /\ lastSnap = [a \in Addrs |-> NoSnap]

Init ==
    /\ Started
    /\ detect = NoDetect
    /\ proc = [p \in Procs |-> IdleProc]
    /\ budget = [calls |-> MaxCalls, confirms |-> MaxConfirms, drops |-> MaxDrops,
                 faults |-> MaxFaults]

\* two callers at once
InitConc ==
    /\ Started
    /\ detect = NoDetect
    /\ proc = [p \in Procs |-> IdleProc]
    /\ budget = [calls |-> MaxConcCalls, confirms |-> 1, drops |-> 0,
                 faults |-> MaxConcFaults]

\* getTransactions is called with a list of n hashes
InitFetch ==
    /\ Started
    /\ detect = NoDetect
    /\ \E n \in 0..MaxFetchIds :
         proc = [p \in Procs |->
                   IF p = "p1"
                   THEN [IdleProc EXCEPT !.pc = "fetch", !.op = "getTransactions",
                                         !.txnHashes = Desc(1..n), !.batch = 1]
                   ELSE IdleProc]
    /\ budget = [calls |-> 0, confirms |-> 0, drops |-> 0, faults |-> MaxFetchFaults]

\* the list is handed to getTransactions by p2 and, whole, to
\* GetTransactionsByHashes by p1
InitClient ==
    /\ Started
    /\ detect = NoDetect
    /\ \E n \in 0..MaxClientIds :
         proc = [p \in Procs |->
                   [IdleProc EXCEPT !.pc = "fetch",
                                    !.op = IF p = "p1" THEN "GetTransactionsByHashes"
                                           ELSE "getTransactions",
                                    !.txnHashes = Desc(1..n), !.batch = 1]]
    /\ budget = [calls |-> 0, confirms |-> 0, drops |-> 0, faults |-> MaxClientFaults]

\* -------------------------------------------------------------- the calls
Set(p, r) == proc' = [proc EXCEPT ![p] = r]

\* the call ends without a commit: the handler returns the error
Failed(q, e) ==
    [q EXCEPT !.pc = "done", !.err = e, !.txns = {}, !.mutations = NoMutations,
              !.address = NoAddress, !.newTxns = {}, !.txnsRecs = {}]

\* add does not look for the address before it syncs
ReadSetAddBlind(o, a) ==
    [addresses |-> IF o = "add" THEN {} ELSE AddressRows(a),
     transactions |-> IF o = "transactions" /\ AddressRows(a) # {}
                      THEN TransactionRows(a) ELSE {}]

\* what the handler's read inside the transaction returns
ReadSet(o, a) ==
    [addresses |-> AddressRows(a),
     transactions |-> IF o = "transactions" /\ AddressRows(a) # {}
                      THEN TransactionRows(a) ELSE {}]

\* a request arrives (the caller has read the answer to its last one):
\* s.ReadWriteTransaction starts the handler's callback
Call(p, o, a) ==
    /\ proc[p].pc \in {"idle", "done"}
    /\ budget.calls > 0
    /\ budget' = [budget EXCEPT !.calls = @ - 1]
    /\ Set(p, [IdleProc EXCEPT !.pc = "read", !.op = o, !.addr = a, !.runs = 1])
    /\ UNCHANGED <<addresses, transactions, upstream, clock, lastSnap>>
    /\ UNCHANGED detect

\* rows of the join of transactions(), as the handler copies them
JoinedRecord(r) == [r EXCEPT !.txn_hash = NoHash, !.created_at = 0]

\* txn.ReadRow in add, balance and SyncHandler; txn.Query in transactions
Read(p) ==
    LET q == proc[p]
        a == q.addr
        rs == ReadSet(q.op, a)
        q1 == [q EXCEPT !.reads = rs]
        row == CHOOSE r \in rs.addresses : TRUE
    IN
    /\ q.pc = "read"
    /\ CASE q.op = "add" ->
              IF rs.addresses # {}
              THEN Set(p, [q1 EXCEPT !.pc = "commit", !.address = row])
              ELSE Set(p, [q1 EXCEPT !.pc = "sync", !.lastTxnHash = NoHash])
         [] q.op \in {"balance", "sync"} ->
              IF rs.addresses = {}
              THEN Set(p, Failed(q1, "NotFound"))
              ELSE Set(p, [q1 EXCEPT !.pc = "sync",
                                     !.lastTxnHash = row.last_txn_hash])
         [] OTHER ->
              Set(p, [q1 EXCEPT !.pc = "sync",
                                !.txnsRecs = q.txnsRecs \cup
                                    {JoinedRecord(r) : r \in rs.transactions},
                                !.lastTxnHash = IF rs.transactions = {} THEN NoHash
                                                ELSE row.last_txn_hash])
    /\ UNCHANGED <<addresses, transactions, upstream, clock, lastSnap, budget>>
    /\ UNCHANGED detect

\* an upstream response may be a failure while the budget lasts
Answer(r) ==
    /\ r \in Responses
    /\ r # OKResponse => budget.faults > 0
    /\ budget' = IF r = OKResponse THEN budget
                 ELSE [budget EXCEPT !.faults = @ - 1]

\* sync up to the filtered hash list: time.Now, getAddrStats, the cursor scan
Sync(p) ==
    LET q == proc[p]
        q0 == [q EXCEPT !.now = clock, !.before = lastSnap[q.addr]]
        stats == AddressStats(upstream[q.addr])
    IN
    /\ q.pc = "sync"
    /\ \E r \in Responses :
        /\ Answer(r)
        /\ LET q1 == [q0 EXCEPT !.statsResp = r] IN
           CASE r.status = 0 -> Set(p, Failed(q1, "transport"))
             [] r.body = "garbage" -> Set(p, Failed(q1, "unmarshal"))
             [] r.body = "nodata" -> Set(p, Failed(q1, "panic"))
             [] OTHER ->
                  Set(p, [q1 EXCEPT !.pc = "fetch", !.addrStats = stats,
                                    !.txnHashes = TxnHashes(stats.txns, q.lastTxnHash),
                                    !.batch = 1, !.txns = {}, !.reqLog = <<>>])
    /\ UNCHANGED <<addresses, transactions, upstream, clock, lastSnap>>
    /\ UNCHANGED detect

\* the hash lists the call hands to GetTransactionsByHashes, one after the
\* other: the chunks of getTransactions, or the list of a caller of the client
Chunks(q) ==
    IF q.op = "GetTransactionsByHashes" THEN <<q.txnHashes>>
    ELSE Batches(q.txnHashes)

\* the request for the next chunk is sent along with the one for this chunk
LoggedConcurrently(q, attempt, r) ==
    LET one == Append(q.reqLog, [hashes |-> Chunks(q)[q.batch],
                                 attempt |-> attempt, resp |-> r])
    IN  IF q.batch < Len(Chunks(q))
        THEN Append(one, [hashes |-> Chunks(q)[q.batch + 1],
                          attempt |-> 1, resp |-> r])
        ELSE one

\* the requests of the current fetch and their answers, in the order sent
Logged(q, attempt, r) ==
    Append(q.reqLog, [hashes |-> Chunks(q)[q.batch],
                      attempt |-> attempt, resp |-> r])

\* a chunk that cannot be decoded is skipped
MergedSkippingErrors(q, body) ==
    LET d == Decode(body, Chunks(q)[q.batch])
    IN  [q EXCEPT !.pc = "fetch", !.txns = q.txns \cup d.data, !.batch = q.batch + 1]

\* a chunk answered without data is asked for again and again
MergedRetryingAgain(q, body) ==
    LET d == Decode(body, Chunks(q)[q.batch])
    IN  IF d.err # "" THEN Failed(q, d.err)
        ELSE IF body = "nodata" THEN [q EXCEPT !.pc = "cooldown"]
        ELSE [q EXCEPT !.pc = "fetch", !.txns = q.txns \cup d.data,
                       !.batch = q.batch + 1]

\* the body of a response is decoded and merged (mergeTxnMaps)
Merged(q, body) ==
    LET d == Decode(body, Chunks(q)[q.batch])
    IN  IF d.err # "" THEN Failed(q, d.err)
        ELSE [q EXCEPT !.pc = "fetch", !.txns = q.txns \cup d.data,
                       !.batch = q.batch + 1]

\* getTransactions asks for the next batch: the first http.Get
FetchRequest(p) ==
    LET q == proc[p]
        batch == Chunks(q)[q.batch]
    IN
    /\ q.pc = "fetch"
    /\ q.batch <= Len(Chunks(q))
    /\ IF TooMany(batch)
       THEN /\ Set(p, Failed(q, "too many hashes"))
            /\ UNCHANGED budget
       ELSE \E r \in Responses :
              /\ Answer(r)
              /\ LET q1 == [q EXCEPT !.reqLog = Logged(q, 1, r)]
                 IN  CASE r.status = 0 -> Set(p, Failed(q1, "transport"))
                       [] Retried(r.status) -> Set(p, [q1 EXCEPT !.pc = "cooldown"])
                       [] OTHER -> Set(p, Merged(q1, r.body))
    /\ UNCHANGED <<addresses, transactions, upstream, clock, lastSnap>>
    /\ UNCHANGED detect

\* after the minute of sleep: the second http.Get of the same batch
FetchRetry(p) ==
    LET q == proc[p]
    IN
    /\ q.pc = "cooldown"
    /\ \E r \in Responses :
         /\ Answer(r)
         /\ LET q1 == [q EXCEPT !.reqLog = Logged(q, 2, r)]
            IN  IF r.status = 0 THEN Set(p, Failed(q1, "transport"))
                ELSE Set(p, Merged(q1, RetryBody(q.reqLog[Len(q.reqLog)].resp, r)))
    /\ UNCHANGED <<addresses, transactions, upstream, clock, lastSnap>>
    /\ UNCHANGED detect

\* the caller cancels the context it has handed to the call; neither
\* http.Get nor time.Sleep of the client looks at it
Cancel(p) ==
    /\ proc[p].pc \in {"fetch", "cooldown"}
    /\ ~ proc[p].cancelled
    /\ Set(p, [proc[p] EXCEPT !.cancelled = TRUE])
    /\ UNCHANGED <<addresses, transactions, upstream, clock, lastSnap, budget, detect>>

\* all batches are merged: getTransactions is about to return the map
Fetched(q) == q.pc = "fetch" /\ q.batch > Len(Chunks(q))

\* the records are built but their mutations are not appended
TransactionMutationsDropped(q) == {}

\* main.go 487-507: one Insert per fetched detail
TransactionMutations(q) ==
    {Insert(TransactionsRecord(h, q.addr, q.now)) : h \in q.txns}

\* the address mutation is built but not appended to the mutations
AddressMutationForgotten(q) == {}

\* main.go 509-523: the address row is inserted or updated
AddressMutations(q) ==
    {InsertOrUpdate(AddressesRecord(q.addr, q.addrStats, q.now))}

\* getTransactions returned: sync builds the records and mutations and
\* buffers them, and the handler's callback returns
BufferWrite(p) ==
    LET q == proc[p]
        recs == {m.row : m \in TransactionMutations(q)}
    IN
    /\ Fetched(q)
    /\ q.op \in Ops
    /\ IF Len(q.addrStats.txns) = 0
       THEN Set(p, Failed(q, "panic"))
       ELSE Set(p, [q EXCEPT !.pc = "commit", !.buffered = @ + 1,
                             !.mutations = [transactions |-> TransactionMutations(q),
                                            addresses |-> AddressMutations(q)],
                             !.address = AddressesRecord(q.addr, q.addrStats, q.now),
                             !.newTxns = recs,
                             !.txnsRecs = IF q.op = "transactions"
                                          THEN q.txnsRecs \cup recs ELSE {}])
    /\ UNCHANGED <<addresses, transactions, upstream, clock, lastSnap, budget>>
    /\ UNCHANGED detect

\* a store without isolation: no transaction is ever aborted
NeverAborted(q) == FALSE

\* only the rows read from the transactions table are validated
AbortedByTransactionRows(q) == ReadSet(q.op, q.addr).transactions # q.reads.transactions

\* the transaction read something that was written since
Aborted(q) == ReadSet(q.op, q.addr) # q.reads

\* the callback returned nil: ReadWriteTransaction commits
Commit(p) ==
    LET q == proc[p]
        m == q.mutations
    IN
    /\ q.pc = "commit"
    /\ IF Aborted(q)
       THEN /\ Set(p, [IdleProc EXCEPT !.pc = "read", !.op = q.op, !.addr = q.addr,
                                       !.txnsRecs = q.txnsRecs,
                                       !.runs = q.runs + 1])
            /\ UNCHANGED <<addresses, transactions, lastSnap>>
       ELSE IF AlreadyExists(transactions, m.transactions) # {}
            THEN /\ Set(p, Failed(q, "AlreadyExists"))
                 /\ UNCHANGED <<addresses, transactions, lastSnap>>
            ELSE /\ transactions' = Applied(transactions, m.transactions)
                 /\ addresses' = Applied(addresses, m.addresses)
                 /\ lastSnap' = IF m.addresses = {} THEN lastSnap
                                ELSE [lastSnap EXCEPT ![q.addr] =
                                        [balance |-> q.addrStats.balance,
                                         txns |-> q.addrStats.txns, synced |-> TRUE]]
                 /\ Set(p, [q EXCEPT !.pc = "done"])
    /\ UNCHANGED <<upstream, clock, budget>>
    /\ UNCHANGED detect

\* ------------------------------------------------------------ environment
Tick ==
    /\ clock < MaxClock
    /\ clock' = clock + 1
    /\ UNCHANGED <<addresses, transactions, upstream, proc, lastSnap, budget>>
    /\ UNCHANGED detect

\* a new transaction of an address arrives upstream
Confirm(a) ==
    /\ budget.confirms > 0
    /\ budget' = [budget EXCEPT !.confirms = @ - 1]
    /\ upstream' = [upstream EXCEPT ![a].issued = @ + 1, ![a].balance = (@ + 1) % (MaxBalance + 1)]
    /\ UNCHANGED <<addresses, transactions, clock, proc, lastSnap>>
    /\ UNCHANGED detect

\* the newest transaction of an address disappears upstream (an unconfirmed
\* transaction is replaced, a block is orphaned)
Drop(a) ==
    /\ budget.drops > 0
    /\ upstream[a].issued \in LiveHashes(upstream[a])
    /\ budget' = [budget EXCEPT !.drops = @ - 1]
    /\ upstream' = [upstream EXCEPT ![a].dropped = @ \cup {upstream[a].issued}]
    /\ UNCHANGED <<addresses, transactions, clock, proc, lastSnap>>
    /\ UNCHANGED detect

\* the steps of the callers `procs`
Handlers(procs) ==
    \/ \E p \in procs, o \in Ops, a \in Contended : Call(p, o, a)
    \/ \E p \in procs : Read(p)
    \/ \E p \in procs : Sync(p)
    \/ \E p \in procs : FetchRequest(p)
    \/ \E p \in procs : FetchRetry(p)
    \/ \E p \in procs : BufferWrite(p)
    \/ \E p \in procs : Commit(p)

\* one caller, a changing upstream
Next ==
    \/ Handlers({"p1"})
    \/ Tick
    \/ \E a \in Contended : Confirm(a)
    \/ \E a \in Contended : Drop(a)

Spec == Init /\ [][Next]_vars

\* two callers, one address
NextConc ==
    \/ Handlers(Procs)
    \/ \E a \in Contended : Confirm(a)

SpecConc == InitConc /\ [][NextConc]_vars

\* one caller, two addresses whose transactions have the same hashes
InitAcross ==
    /\ Started
    /\ detect = NoDetect
    /\ proc = [p \in Procs |-> IdleProc]
    /\ budget = [calls |-> MaxAcrossCalls, confirms |-> 0, drops |-> 0,
                 faults |-> MaxAcrossFaults]

NextAcross ==
    \/ \E o \in Ops, a \in Addrs : Call("p1", o, a)
    \/ Read("p1")
    \/ Sync("p1")
    \/ FetchRequest("p1")
    \/ FetchRetry("p1")
    \/ BufferWrite("p1")
    \/ Commit("p1")

SpecAcross == InitAcross /\ [][NextAcross]_vars

\* getTransactions alone
NextFetch ==
    \/ FetchRequest("p1")
    \/ FetchRetry("p1")
    \/ Cancel("p1")

SpecFetch == InitFetch /\ [][NextFetch]_vars

\* the client called with a whole list, next to getTransactions
NextClient ==
    \/ \E p \in Procs : FetchRequest(p)
    \/ \E p \in Procs : FetchRetry(p)

SpecClient == InitClient /\ [][NextClient]_vars

\* every http.Get returns (the client has a timeout) and the sleep ends
FairSpecFetch ==
    SpecFetch /\ WF_vars(FetchRequest("p1")) /\ WF_vars(FetchRetry("p1"))

\* ------------------------------------------------------- detectTransfers
Wallets == {"A", "B", "C"}
Flows == {"in", "out"}
Amounts == {50, 100}

\* the i-th transaction of a request
CustomTxn(i, f) ==
    [id |-> i, wallet |-> f.wallet, flow |-> f.flow, time |-> f.time,
     amount |-> f.amount]

\* a less function that looks at the timestamps only
LessTimeOnly(x, y) == x.time < y.time

\* the less function handed to sort.Slice: by timestamp, then by amount
Less(x, y) ==
    \/ x.time < y.time
    \/ x.time = y.time /\ x.amount < y.amount

\* the orders sort.Slice may leave the slice in: the sort is not stable
Sorted(txns) ==
    {s \in [1..Len(txns) -> Range(txns)] :
        /\ \A t \in Range(txns) : \E i \in 1..Len(txns) : s[i] = t
        /\ \A i, j \in 1..Len(txns) : i < j => ~ Less(s[j], s[i])}

\* the matcher pairing an out with an in of its amount and time on any wallet
detectTransfersAnyWallet(sorted) ==
    [resp |-> [nil |-> FALSE,
               entries |-> {<<x.id, y.id>> : <<x, y>> \in
                   {z \in Range(sorted) \X Range(sorted) :
                       /\ z[1].flow = "out" /\ z[2].flow = "in"
                       /\ z[1].amount = z[2].amount /\ z[1].time = z[2].time}}],
     err |-> ""]

\* the matcher that does not mark an in transaction as consumed
detectTransfersNotConsumed(sorted) ==
    [resp |-> [nil |-> FALSE,
               entries |-> {<<x.id, y.id>> : <<x, y>> \in
                   {z \in Range(sorted) \X Range(sorted) :
                       /\ z[1].flow = "out" /\ z[2].flow = "in"
                       /\ z[1].wallet # z[2].wallet
                       /\ z[1].amount = z[2].amount /\ z[1].time <= z[2].time}}],
     err |-> ""]

\* the matcher pairing an out with a later in whatever the amounts
detectTransfersAnyAmount(sorted) ==
    [resp |-> [nil |-> FALSE,
               entries |-> {<<x.id, y.id>> : <<x, y>> \in
                   {z \in Range(sorted) \X Range(sorted) :
                       /\ z[1].flow = "out" /\ z[2].flow = "in"
                       /\ z[1].wallet # z[2].wallet
                       /\ z[1].time <= z[2].time}}],
     err |-> ""]

\* the matcher that rejects a request without transactions
detectTransfersRejectsEmpty(sorted) ==
    [resp |-> NilMap, err |-> IF sorted = <<>> THEN "no transactions" ELSE ""]

\* the transactions are sorted, no pair is built: return nil, nil
detectTransfers(sorted) == [resp |-> NilMap, err |-> ""]

\* a request with n well-formed transactions has arrived
InitDetect ==
    /\ Started
    /\ proc = [p \in Procs |-> IdleProc]
    /\ budget = [calls |-> 0, confirms |-> 0, drops |-> 0, faults |-> 0]
    /\ \E n \in 0..MaxDetectTxns :
         \E f \in [1..n -> [wallet : Wallets, flow : Flows, time : 0..MaxDetectTime,
                            amount : Amounts]] :
            detect = [NoDetect EXCEPT !.pc = "request",
                                      !.txns = [i \in 1..n |-> CustomTxn(i, f[i])],
                                      !.input = [i \in 1..n |-> CustomTxn(i, f[i])]]

\* DetectTransfersHandler calls detectTransfers, which sorts the slice of
\* the request in place and returns
DetectTransfers ==
    /\ detect.pc = "request"
    /\ \E sorted \in Sorted(detect.txns) :
         detect' = [pc |-> "done", txns |-> sorted,
                    resp |-> detectTransfers(sorted).resp,
                    err |-> detectTransfers(sorted).err,
                    input |-> detect.input]
    /\ UNCHANGED <<addresses, transactions, upstream, clock, proc, lastSnap, budget>>

NextDetect == DetectTransfers

SpecDetect == InitDetect /\ [][NextDetect]_vars

TypeOK ==
    /\ \A p \in Procs : proc[p].pc \in {"idle", "read", "sync", "fetch", "cooldown",
                                        "commit", "done"}
    /\ clock \in 0..MaxClock

\* ----------------------------------------------------------------- claims
SyncOps == {"add", "balance", "transactions", "sync"}

\* the caller is inside sync, behind getAddrStats
InSync(q) == q.op \in SyncOps /\ q.pc \in {"fetch", "cooldown", "commit"}

\* the call has ended with a committed sync
Synced(q) ==
    q.op \in SyncOps /\ q.pc = "done" /\ q.err = "" /\ q.mutations # NoMutations

\* sync runs a second time: with the cursor that is stored, on the snapshot the
\* last committed sync has seen
SecondSync(q) ==
    /\ InSync(q) \/ Synced(q)
    /\ q.lastTxnHash # NoHash
    /\ \E r \in q.reads.addresses : r.last_txn_hash = q.lastTxnHash
    /\ q.before.synced
    /\ q.before.txns = q.addrStats.txns
    /\ q.before.balance = q.addrStats.balance

\* nothing is fetched and nothing but the address row is written
NothingNew(q) ==
    /\ q.txnHashes = <<>>
    /\ q.reqLog = <<>>
    /\ q.pc \in {"commit", "done"} =>
         /\ q.mutations.transactions = {}
         /\ q.newTxns = {}

\* the commit of a second sync leaves the transactions table as it is
NoRecordWritten ==
    \A p \in Procs :
        (SecondSync(proc[p]) /\ proc[p].pc = "commit" /\ proc'[p].pc = "done")
            => transactions' = transactions

IdenticalRecord ==
    \A p \in Procs :
        LET q == proc[p] IN
        SecondSync(q) =>
            /\ NothingNew(q)
            /\ q.pc \in {"commit", "done"} => q.address \in q.reads.addresses

\* C1 as the spec states it: the second of two syncs with no upstream change
\* between them returns the AddressRecord of the first, field by field, an
\* empty new-transaction list, and fetches and writes no transaction.
C1_IdenticalRecord == []IdenticalRecord /\ [][NoRecordWritten]_vars

SameRecordNewTimes ==
    \A p \in Procs :
        LET q == proc[p] IN
        SecondSync(q) =>
            /\ NothingNew(q)
            /\ q.pc \in {"commit", "done"} =>
                 \E r \in q.reads.addresses :
                    /\ q.address.public_key = r.public_key
                    /\ q.address.balance = r.balance
                    /\ q.address.last_txn_hash = r.last_txn_hash
                    /\ q.address.updated_at = q.now

\* C1, amended: the second sync returns an AddressRecord with the public key,
\* balance and last_txn_hash of the first and the timestamps of the second
\* call, an empty new-transaction list, and fetches and writes no transaction.
C1_Idempotent == []SameRecordNewTimes /\ [][NoRecordWritten]_vars

\* a second sync has committed, later than the first
C1_Witness ==
    \E p \in Procs :
        LET q == proc[p] IN
        /\ Synced(q)
        /\ SecondSync(q)
        /\ q.address \in addresses
        /\ \E r \in q.reads.addresses : r.updated_at < q.now

\* C2: when the stored cursor is the k-th newest id of the snapshot list, the
\* new set is the k-1 ids in front of it, in the order of the list.
C2_CursorCorrect ==
    \A p \in Procs :
        LET q == proc[p] IN
        InSync(q) =>
            \A k \in 1..Len(q.addrStats.txns) :
                (q.lastTxnHash # NoHash /\ q.addrStats.txns[k] = q.lastTxnHash) =>
                    /\ Len(q.txnHashes) = k - 1
                    /\ \A i \in 1..(k - 1) : q.txnHashes[i] = q.addrStats.txns[i]

\* a sync whose cursor is the third id of a list of four
C2_Witness ==
    \E p \in Procs :
        LET q == proc[p] IN
        /\ InSync(q)
        /\ Len(q.addrStats.txns) = 4
        /\ q.addrStats.txns[3] = q.lastTxnHash
        /\ Len(q.txnHashes) = 2

\* the calls of GetTransactionsByHashes among the logged requests, in order
IsCall(e) == e.attempt = 1

ClientCalls(q) == SelectSeq(q.reqLog, IsCall)

\* the requests that were not followed by a retry
FinalRequests(q) ==
    {i \in 1..Len(q.reqLog) : i = Len(q.reqLog) \/ q.reqLog[i + 1].attempt = 1}

AllAnswered(q) == \A i \in 1..Len(q.reqLog) : q.reqLog[i].resp = OKResponse

InFetch(q) == q.op # "none" /\ q.pc \in {"fetch", "cooldown"}

Batching ==
    \A p \in Procs :
        LET q == proc[p]
            n == Len(q.txnHashes)
            cs == ClientCalls(q)
        IN
        q.op # "none" =>
            /\ \A i \in 1..Len(cs) :
                  cs[i].hashes = SubSeq(q.txnHashes, 10 * (i - 1) + 1, Min(10 * i, n))
            /\ Fetched(q) =>
                  /\ Len(cs) = (n + 9) \div 10
                  /\ AllAnswered(q) =>
                        /\ Len(q.reqLog) = (n + 9) \div 10
                        /\ q.txns = Range(q.txnHashes)
                        /\ Cardinality(q.txns) = n

\* C3: getTransactions calls the client ceil(n/10) times for a list of n ids;
\* the i-th call carries the ids 10(i-1)+1 .. min(10i, n) of the list, so all
\* chunks but the last have 10 ids, follow the input order and do not overlap;
\* when every request is answered these are all the upstream requests and the
\* merged map has exactly the n ids.
C3_Batching == Batching

\* 25 ids were fetched in requests of 10, 10 and 5 ids
C3_Witness ==
    LET q == proc["p1"] IN
    /\ Fetched(q)
    /\ Len(q.txnHashes) = 25
    /\ Len(q.reqLog) = 3
    /\ Len(q.reqLog[1].hashes) = 10
    /\ Len(q.reqLog[2].hashes) = 10
    /\ Len(q.reqLog[3].hashes) = 5
    /\ Cardinality(q.txns) = 25

\* request i was throttled and its retry answered / throttled again
ThrottledThen(q, i, ok) ==
    /\ i < Len(q.reqLog)
    /\ q.reqLog[i].attempt = 1
    /\ q.reqLog[i].resp.status = StatusThrottled
    /\ q.reqLog[i + 1].attempt = 2
    /\ IF ok THEN q.reqLog[i + 1].resp = OKResponse
       ELSE q.reqLog[i + 1].resp.status = StatusThrottled

RetrySucceeds ==
    \A p \in Procs :
        LET q == proc[p] IN
        /\ \A i \in 1..Len(q.reqLog) :
              ThrottledThen(q, i, TRUE) =>
                  /\ i + 1 = Len(q.reqLog) => q.pc = "fetch" /\ q.err = ""
                  /\ InFetch(q) => Range(q.reqLog[i].hashes) \subseteq q.txns
        /\ (Fetched(q) /\ \A i \in FinalRequests(q) : q.reqLog[i].resp = OKResponse)
              => q.txns = Range(q.txnHashes) /\ q.err = ""

\* C4: when the first request for a chunk is throttled and the retry is
\* answered, the data of the chunk is in the map and there is no error; a
\* fetch whose chunks were all answered at the first or the second request
\* returns the data of every id.
C4_RetrySucceeds == RetrySucceeds

\* 25 ids were fetched, one of the chunks at the second request
C4_Witness ==
    LET q == proc["p1"] IN
    /\ Fetched(q)
    /\ Len(q.txnHashes) = 25
    /\ \E i \in 1..Len(q.reqLog) : ThrottledThen(q, i, TRUE)
    /\ q.txns = Range(q.txnHashes)

\* C5: when the first request and the retry for a chunk are both throttled,
\* the fetch fails with RateLimitExceeded and returns no map.
C5_RateLimitExceeded ==
    \A p \in Procs :
        LET q == proc[p] IN
        (\E i \in 1..Len(q.reqLog) : ThrottledThen(q, i, FALSE)) =>
            q.pc = "done" /\ q.err = "RateLimitExceeded" /\ q.txns = {}

Rows(muts) == {m.row : m \in muts}

\* a step that changes a table is the commit of one call and writes all the
\* rows of that call, the address row among them
WrittenTogether ==
    (addresses' # addresses \/ transactions' # transactions) =>
        \E p \in Procs :
            LET q == proc[p]
                m == q.mutations
            IN
            /\ q.pc = "commit" /\ proc'[p].pc = "done" /\ proc'[p].err = ""
            /\ m.addresses # {}
            /\ transactions' = transactions \cup Rows(m.transactions)
            /\ addresses' \ addresses \subseteq Rows(m.addresses)
            /\ Rows(m.addresses) \subseteq addresses'
            /\ q.newTxns = Rows(m.transactions)
            /\ q.address \in Rows(m.addresses)

\* no transaction row without the address row of its address
NoOrphans == \A t \in transactions : AddressRows(t.public_key) # {}

\* C6: the TransactionRecords and the AddressRecord of one sync become visible
\* in one step: every change of the tables is the whole write of one committed
\* call, and no table state holds transaction rows without their address row.
C6_AtomicWrite == []NoOrphans /\ [][WrittenTogether]_vars

\* a sync with two new transactions has committed
C6_Witness ==
    \E p \in Procs :
        LET q == proc[p] IN
        /\ Synced(q)
        /\ Cardinality(q.newTxns) >= 2
        /\ q.newTxns \subseteq transactions
        /\ q.address \in addresses

\* C7: the last_txn_hash of every stored AddressRecord names a stored
\* TransactionRecord of that address.
C7_CursorInvariant ==
    \A r \in addresses :
        \E t \in transactions :
            t.public_key = r.public_key /\ t.txn_hash = r.last_txn_hash

Stored(row) == \E t \in transactions : TransactionKey(t) = TransactionKey(row)

\* C8: a TransactionRecord whose key is stored is never inserted again: a
\* mutation for a stored key is an upsert, and no call fails on a stored key.
C8_NoDoubleWrite ==
    \A p \in Procs :
        LET q == proc[p] IN
        /\ q.err # "AlreadyExists"
        /\ (q.pc = "commit" /\ ~ Aborted(q)) =>
              \A m \in q.mutations.transactions :
                  Stored(m.row) => m.op = "InsertOrUpdate"

\* the stored cursor is nowhere in the snapshot list
CursorLost(q) ==
    /\ InSync(q) \/ (q.op \in SyncOps /\ q.pc = "done" /\ q.addrStats # NoStats)
    /\ q.lastTxnHash # NoHash
    /\ \A i \in 1..Len(q.addrStats.txns) : q.addrStats.txns[i] # q.lastTxnHash

\* C9: when the stored cursor is not in the snapshot page and the page holds
\* ids that are stored, sync either ends with a gap error or writes the page
\* with upserts.
C9_CursorNotFound ==
    \A p \in Procs :
        LET q == proc[p] IN
        (CursorLost(q) /\ \E m \in TransactionMutations(q) : Stored(m.row)) =>
            \/ q.pc = "done" /\ q.err = "GapDetected"
            \/ \A m \in TransactionMutations(q) : m.op = "InsertOrUpdate"

OneRowPerKey ==
    /\ \A r1, r2 \in addresses : AddressKey(r1) = AddressKey(r2) => r1 = r2
    /\ \A t1, t2 \in transactions : TransactionKey(t1) = TransactionKey(t2) => t1 = t2

\* the call found the address unseen and has committed its first sync
FirstSynced(q) == Synced(q) /\ q.lastTxnHash = NoHash /\ q.reads.addresses = {}

OneFirstSync ==
    \A p1, p2 \in Procs :
        (p1 # p2 /\ proc[p1].addr = proc[p2].addr) =>
            ~ (FirstSynced(proc[p1]) /\ FirstSynced(proc[p2]))

\* C10: of two callers that find the same address unseen at most one commits
\* its initial records; the tables never hold two AddressRecords of one public
\* key nor two TransactionRecords of one (hash, public key).
C10_OneFirstSync == OneRowPerKey /\ OneFirstSync

\* two adds of one unseen address ran at once: one has inserted the records,
\* the other was aborted, ran again and returned the stored record
C10_Witness ==
    \E p1, p2 \in Procs :
        /\ p1 # p2
        /\ proc[p1].op = "add" /\ proc[p2].op = "add"
        /\ proc[p1].addr = proc[p2].addr
        /\ FirstSynced(proc[p1])
        /\ proc[p2].pc = "done" /\ proc[p2].err = "" /\ proc[p2].runs = 2
        /\ proc[p2].mutations = NoMutations
        /\ proc[p2].address \in addresses
        /\ proc[p1].address \in addresses

\* the cursor a call that reads the store now hands to sync
StoredCursor(o, a) ==
    LET rs == ReadSet(o, a)
        row == CHOOSE r \in rs.addresses : TRUE
    IN  IF rs.addresses = {} THEN NoHash
        ELSE IF o = "transactions" /\ rs.transactions = {} THEN NoHash
        ELSE row.last_txn_hash

\* the commit of p is the whole call run in this one step on the store as it
\* is now: the cursor it used is the stored one, the new set is cut from its
\* snapshot at that cursor, and the tables and the result are the write of
\* that new set and snapshot
AtomicSync(p) ==
    LET q == proc[p]
        a == q.addr
        address == AddressesRecord(a, q.addrStats, q.now)
        recs == {TransactionsRecord(h, a, q.now) : h \in q.txns}
    IN
    IF q.mutations = NoMutations
    THEN /\ q.op = "add"
         /\ q.address \in addresses
         /\ UNCHANGED <<addresses, transactions>>
    ELSE /\ q.lastTxnHash = StoredCursor(q.op, a)
         /\ q.txnHashes = TxnHashes(q.addrStats.txns, StoredCursor(q.op, a))
         /\ q.txns \subseteq Range(q.txnHashes)
         /\ transactions' = transactions \cup recs
         /\ addresses' = (addresses \ AddressRows(a)) \cup {address}
         /\ proc'[p].address = address
         /\ proc'[p].newTxns = recs

Serializable ==
    \A p \in Procs :
        (proc[p].pc = "commit" /\ proc'[p].pc = "done" /\ proc'[p].err = "")
            => AtomicSync(p)

\* C11: calls that overlap on one address are serializable: every call that
\* commits has, at its commit, the effect and the result of the whole call run
\* in that one step on the current store (cursor read, new set, write), so
\* the tables and the results are those of the calls run one after the other
\* in the order of their commits; the tables hold one row per key throughout.
C11_Serializable == []OneRowPerKey /\ [][Serializable]_vars

\* two syncs of a tracked address overlapped: one committed new transactions,
\* the other was aborted, ran again from the cursor the first had written and
\* committed as well
C11_Witness ==
    \E p1, p2 \in Procs :
        /\ p1 # p2
        /\ proc[p1].op \in {"sync", "balance"} /\ proc[p2].op \in {"sync", "balance"}
        /\ proc[p1].addr = proc[p2].addr
        /\ Synced(proc[p1]) /\ Synced(proc[p2])
        /\ proc[p1].newTxns # {}
        /\ proc[p2].runs = 2
        /\ proc[p2].lastTxnHash = proc[p1].address.last_txn_hash
        /\ proc[p2].lastTxnHash # proc[p1].lastTxnHash

Detected == detect.pc = "done"

Outs == {x \in Range(detect.txns) : x.flow = "out"}

Ins == {x \in Range(detect.txns) : x.flow = "in"}

\* the in transactions an out transaction may be paired with: another
\* wallet, the same amount, at most the window of 5 minutes later
Candidates(x) ==
    {y \in Ins : /\ y.wallet # x.wallet
                 /\ y.amount = x.amount
                 /\ y.time >= x.time /\ y.time - x.time <= 5}

\* the request {A, out, 100, t0}, {B, in, 100, t0 + 2m}
TransferAToB ==
    /\ Len(detect.txns) = 2
    /\ \E x \in Outs, y \in Ins :
         /\ x.wallet = "A" /\ y.wallet = "B"
         /\ x.amount = 100 /\ y.amount = 100
         /\ x.time = 0 /\ y.time = 2

\* C12: for the request {A, out, 100, t0}, {B, in, 100, t0 + 2m} the answer
\* is the mapping of the id of the out transaction to the id of the in
\* transaction, and nothing else.
C12_PairsOutWithIn ==
    (Detected /\ TransferAToB) =>
        \E x \in Outs, y \in Ins : detect.resp.entries = {<<x.id, y.id>>}

\* the place of a transaction in the sorted sequence
Position(y) == CHOOSE i \in 1..Len(detect.txns) : detect.txns[i] = y

\* y is the candidate of x that is closest in time and, among those, first in
\* the sorted sequence (the amounts of all candidates are equal)
Closest(x, y) ==
    /\ y \in Candidates(x)
    /\ \A z \in Candidates(x) :
          \/ y.time < z.time
          \/ y.time = z.time /\ Position(y) <= Position(z)

\* C13: a request with one out transaction that has several candidates is
\* answered with the pair of the out transaction and its closest candidate.
C13_ClosestWins ==
    Detected =>
        \A x \in Outs :
            (Outs = {x} /\ Cardinality(Candidates(x)) >= 2) =>
                \E y \in Ins : Closest(x, y) /\ detect.resp.entries = {<<x.id, y.id>>}

Txn(id) == CHOOSE x \in Range(detect.txns) : x.id = id

\* the request {A, out, 50, t0}, {A, in, 50, t0}
SelfTransfer ==
    /\ Len(detect.txns) = 2
    /\ \E x \in Outs, y \in Ins :
         /\ x.wallet = "A" /\ y.wallet = "A"
         /\ x.amount = 50 /\ y.amount = 50
         /\ x.time = y.time

\* C14: no pair of an answer has its two transactions on one wallet; the
\* request {A, out, 50, t0}, {A, in, 50, t0} is answered with no pair.
C14_NoSelfPairing ==
    Detected =>
        /\ \A e \in detect.resp.entries : Txn(e[1]).wallet # Txn(e[2]).wallet
        /\ SelfTransfer => detect.resp.entries = {}

\* the self transfer was answered
C14_Witness == Detected /\ SelfTransfer /\ detect.resp.entries = {} /\ detect.err = ""

\* C15: no transaction id takes part in two pairs of an answer: an out id is
\* a key once, an in id a value once, and no id is both.
C15_OneToOne ==
    Detected =>
        \A e1, e2 \in detect.resp.entries :
            e1 # e2 => {e1[1], e1[2]} \cap {e2[1], e2[2]} = {}

\* a request in which two out transactions have the same single candidate
\* was answered
C15_Witness ==
    /\ Detected
    /\ detect.err = ""
    /\ \E x1, x2 \in Outs :
         /\ x1 # x2
         /\ Candidates(x1) # {}
         /\ Candidates(x1) = Candidates(x2)
    /\ \A e1, e2 \in detect.resp.entries : e1 = e2

\* C16: detectTransfers returns no error on a well-formed request, and on the
\* empty request no error and a mapping without entries.
C16_NeverFails ==
    Detected =>
        /\ detect.err = ""
        /\ detect.txns = <<>> => detect.resp.entries = {}

\* the empty request was answered
C16_Witness ==
    /\ Detected
    /\ detect.err = ""
    /\ detect.resp.entries = {}
    /\ detect.txns = <<>>

\* C17: a call of add, balance, transactions or sync that finds no row of
\* the address does not end with NotFound: it runs sync without a cursor.
C17_NotFoundSyncs ==
    \A p \in Procs :
        LET q == proc[p] IN
        (q.op \in SyncOps /\ q.pc \notin {"idle", "read"} /\ q.reads.addresses = {}) =>
            /\ q.err # "NotFound"
            /\ q.lastTxnHash = NoHash

\* request i got no answer (transport) or an answer that is not JSON and is
\* the one that is decoded (parse)
Broken(q, i) ==
    LET e == q.reqLog[i] IN
    \/ e.resp.status = 0
    \/ e.resp.body = "garbage" /\ (e.attempt = 2 \/ ~ Retried(e.resp.status))

FailFast ==
    \A p \in Procs :
        LET q == proc[p] IN
        \A i \in 1..Len(q.reqLog) :
            Broken(q, i) =>
                /\ i = Len(q.reqLog)
                /\ q.pc = "done"
                /\ q.err \in {"transport", "unmarshal"}
                /\ q.txns = {}

\* C18: a request for a chunk that ends in a transport or a parse error is
\* the last request of the fetch: the fetch has ended with an error and with
\* no map, whatever was merged before.
C18_FailFast == FailFast

\* of 25 ids the first chunk was fetched and the second ended in a parse
\* error: the third was never requested
C18_Witness ==
    LET q == proc["p1"] IN
    /\ Len(q.txnHashes) = 25
    /\ Len(q.reqLog) = 2
    /\ q.reqLog[1].resp = OKResponse
    /\ q.reqLog[2].resp.body = "garbage" /\ q.reqLog[2].resp.status # StatusThrottled
    /\ q.pc = "done" /\ q.err = "unmarshal"

\* the call of p returns in this step
Returns(p) == proc[p].pc # "done" /\ proc'[p].pc = "done"

NoPartialSuccess ==
    /\ \A p \in Procs :
          (Returns(p) /\ proc'[p].err # "") => UNCHANGED <<addresses, transactions>>
    /\ (addresses' # addresses \/ transactions' # transactions) =>
          \E p \in Procs : Returns(p) /\ proc'[p].err = ""
    /\ \A p \in Procs :
          (Returns(p) /\ proc'[p].err = "" /\ proc[p].mutations # NoMutations) =>
              /\ Rows(proc[p].mutations.transactions) \subseteq transactions'
              /\ Rows(proc[p].mutations.addresses) \subseteq addresses'
              /\ proc'[p].address \in addresses'
              /\ proc'[p].newTxns \subseteq transactions'
              /\ \A h \in Range(proc[p].txnHashes) :
                    \E t \in transactions' :
                        t.txn_hash = h /\ t.public_key = proc[p].addr

\* C19: a call that returns an error leaves both tables as they were, the
\* tables change only in the step in which a call returns without error, and
\* a call that returns without error has its full write in the tables: the
\* address row and a row for every new id of its snapshot.
C19_NoPartialSuccess == [][NoPartialSuccess]_vars

\* sync has returned without error / with an error in the current run
SyncReturned(q) ==
    \/ q.pc = "commit" /\ q.mutations # NoMutations
    \/ q.pc = "done" /\ q.err = "" /\ q.mutations # NoMutations
    \/ q.pc = "done" /\ q.err = "AlreadyExists"

SyncFailed(q) ==
    q.pc = "done" /\ q.err \in {"transport", "unmarshal", "panic", "too many hashes"}

OneWrite ==
    \A p \in Procs :
        LET q == proc[p] IN
        /\ q.buffered <= 1
        /\ SyncReturned(q) => q.buffered = 1
        /\ (q.op \in SyncOps /\ ~ SyncReturned(q)) => q.buffered = 0
        /\ SyncFailed(q) => q.mutations = NoMutations
        /\ (q.pc = "commit" /\ q.mutations # NoMutations) =>
              /\ Rows(q.mutations.addresses) =
                    {AddressesRecord(q.addr, q.addrStats, q.now)}
              /\ Rows(q.mutations.transactions) =
                    {TransactionsRecord(h, q.addr, q.now) : h \in q.txns}

\* C20: a run of sync that returns without error has called BufferWrite
\* once, with the address mutation and one mutation for every fetched
\* transaction; a run of sync that returns an error has not called it.
C20_OneWrite == OneWrite

\* a sync with two new transactions has buffered its write
C20_Witness ==
    \E p \in Procs :
        LET q == proc[p] IN
        /\ q.pc = "commit"
        /\ q.buffered = 1
        /\ Cardinality(q.mutations.transactions) = 2
        /\ Cardinality(q.mutations.addresses) = 1

\* the chunk a logged request asks for
ChunkOf(q, e) ==
    CHOOSE k \in 1..Len(Batches(q.txnHashes)) : Batches(q.txnHashes)[k] = e.hashes

\* the log of a fetch goes through the chunks in order: a retry follows the
\* throttled request of its chunk at once, every other request is for the
\* chunk after the one of the request before it, and a request is waiting
\* for its retry exactly when the fetch is in the cooldown
SequentialLog ==
    \A p \in Procs :
        LET q == proc[p] IN
        /\ \A i \in 1..Len(q.reqLog) :
              IF q.reqLog[i].attempt = 2
              THEN /\ i > 1
                   /\ q.reqLog[i - 1].attempt = 1
                   /\ q.reqLog[i - 1].resp.status = StatusThrottled
                   /\ ChunkOf(q, q.reqLog[i]) = ChunkOf(q, q.reqLog[i - 1])
              ELSE ChunkOf(q, q.reqLog[i]) =
                      IF i = 1 THEN 1 ELSE ChunkOf(q, q.reqLog[i - 1]) + 1
        /\ q.pc = "cooldown" <=>
              /\ q.reqLog # <<>>
              /\ q.reqLog[Len(q.reqLog)].attempt = 1
              /\ q.reqLog[Len(q.reqLog)].resp.status = StatusThrottled

\* a step sends at most one request, and none for a new chunk while the
\* request of the chunk before waits for its retry
OneRequestAtATime ==
    \A p \in Procs :
        proc'[p].reqLog # proc[p].reqLog =>
            \/ proc'[p].reqLog = <<>>
            \/ /\ Len(proc'[p].reqLog) = Len(proc[p].reqLog) + 1
                /\ SubSeq(proc'[p].reqLog, 1, Len(proc[p].reqLog)) = proc[p].reqLog
                /\ proc'[p].reqLog[Len(proc'[p].reqLog)].attempt = 1
                      => proc[p].pc = "fetch"

\* C21: the chunks of a fetch are requested one after the other: every step
\* sends at most one detail request, and the request for the next chunk is
\* sent only after the request, and the retry if any, of the chunk before it
\* was answered.
C21_Sequential == []SequentialLog /\ [][OneRequestAtATime]_vars

\* 25 ids were fetched in the order chunk 1, chunk 2, retry of chunk 2, chunk 3
C21_Witness ==
    LET q == proc["p1"] IN
    /\ Fetched(q)
    /\ Len(q.txnHashes) = 25
    /\ Len(q.reqLog) = 4
    /\ q.reqLog[2].resp.status = StatusThrottled
    /\ q.reqLog[3].attempt = 2
    /\ ChunkOf(q, q.reqLog[4]) = 3

\* the requests that were sent for chunk k
RequestsFor(q, k) == {i \in 1..Len(q.reqLog) : ChunkOf(q, q.reqLog[i]) = k}

RetryBound ==
    \A p \in Procs :
        LET q == proc[p]
            n == Len(q.txnHashes)
        IN
        /\ Len(q.reqLog) <= 2 * ((n + 9) \div 10)
        /\ \A k \in 1..Len(Batches(q.txnHashes)) :
              /\ Cardinality(RequestsFor(q, k)) <= 2
              /\ \A i \in RequestsFor(q, k) :
                    /\ (q.reqLog[i].attempt = 1
                           /\ q.reqLog[i].resp.status # StatusThrottled)
                          => RequestsFor(q, k) = {i}
                    /\ (q.reqLog[i].attempt = 1
                           /\ q.reqLog[i].resp.status = StatusThrottled
                           /\ q.pc # "cooldown")
                          => RequestsFor(q, k) = {i, i + 1}

\* the fetch has returned: with the map or with an error
FetchEnded == \A p \in Procs : proc[p].op = "getTransactions" =>
                  Fetched(proc[p]) \/ proc[p].pc = "done"

C23_SnapshotThrottled ==
    \A p \in Procs :
        LET q == proc[p] IN
        q.statsResp.status = StatusThrottled =>
            \/ q.pc = "cooldown" /\ q.reqLog = <<>>
            \/ q.pc = "done" /\ q.err = "RateLimitExceeded"

\* an answer that is neither a success nor the throttling status
ServerError(r) == r.status \notin {0, 200, StatusThrottled}

\* C24: a snapshot or detail request answered with a 5xx status ends the
\* call at once with an error: it is the last request of the call and the
\* call is neither going on nor crashed nor successful.
C24_ServerErrorSurfaced ==
    \A p \in Procs :
        LET q == proc[p] IN
        /\ ServerError(q.statsResp) => q.pc = "done" /\ q.err \notin {"", "panic"}
        /\ \A i \in 1..Len(q.reqLog) :
              ServerError(q.reqLog[i].resp) =>
                  /\ i = Len(q.reqLog)
                  /\ q.pc = "done" /\ q.err \notin {"", "panic"}

\* a successful answer that lacks the requested entry
Malformed(r) == r.status = 200 /\ r.body = "nodata"

\* C25: a snapshot without the entry of the address, or details without the
\* entries of the requested ids, end the call with a malformed-data error:
\* the call neither crashes nor goes on.
C25_MalformedData ==
    \A p \in Procs :
        LET q == proc[p] IN
        /\ Malformed(q.statsResp) => q.pc = "done" /\ q.err \notin {"", "panic"}
        /\ \A i \in 1..Len(q.reqLog) :
              Malformed(q.reqLog[i].resp) => q.pc = "done" /\ q.err \notin {"", "panic"}

\* once its context is cancelled a fetch sends no request any more
NothingAfterCancel ==
    \A p \in Procs : proc[p].cancelled => proc'[p].reqLog = proc[p].reqLog

\* C26: a fetch whose context was cancelled, be it in the cooldown or
\* between two requests, is aborted: it sends no further upstream request.
C26_Cancellation == [][NothingAfterCancel]_vars

\* an add that found the address returns the stored row and has asked
\* upstream nothing; an add is inside sync only for an address without a row;
\* an add that has synced had found no row and has created it
AddNoOp ==
    \A p \in Procs :
        LET q == proc[p] IN
        q.op = "add" =>
            /\ (q.reads.addresses # {} /\ q.pc \in {"commit", "done"}) =>
                  /\ q.address \in q.reads.addresses
                  /\ q.address \in addresses
                  /\ q.statsResp = NoResponse /\ q.reqLog = <<>>
                  /\ q.mutations = NoMutations /\ q.newTxns = {}
            /\ q.pc \in {"sync", "fetch", "cooldown", "commit"} =>
                  (AddressRows(q.addr) # {} =>
                      q.statsResp = NoResponse /\ q.pc = "commit")
            /\ Synced(q) =>
                  /\ q.reads.addresses = {}
                  /\ q.address \in addresses
                  /\ q.newTxns \subseteq transactions

\* the commit of an add that wrote nothing leaves the tables alone
AddWritesNothing ==
    \A p \in Procs :
        (proc[p].op = "add" /\ proc[p].pc = "commit" /\ proc[p].reads.addresses # {})
            => UNCHANGED <<addresses, transactions>>

\* C27: add for an address that has a row returns that row as stored, sends
\* no upstream request and writes nothing; add creates the row and imports
\* the transactions only for an address without a row.
C27_AddNoOp == []AddNoOp /\ [][AddWritesNothing]_vars

\* an add of a tracked address has returned the stored row
C27_Witness ==
    \E p \in Procs :
        LET q == proc[p] IN
        /\ q.op = "add" /\ q.pc = "done" /\ q.err = ""
        /\ q.reads.addresses # {}
        /\ q.address \in addresses
        /\ q.statsResp = NoResponse
        /\ TransactionRows(q.addr) # {}

\* a balance call answers with the balance of the row it has read
StoredBalance ==
    \A p \in Procs :
        LET q == proc[p] IN
        (q.op = "balance" /\ q.pc = "done" /\ q.err = "") =>
            \E r \in q.reads.addresses : q.address.balance = r.balance

BalanceWritesNothing ==
    \A p \in Procs :
        (proc[p].op = "balance" /\ proc[p].pc = "commit")
            => UNCHANGED <<addresses, transactions>>

\* C28: balance returns the balance of the stored AddressRecord, whatever
\* upstream says now, and leaves both tables as they are.
C28_StoredBalance == []StoredBalance /\ [][BalanceWritesNothing]_vars

\* C29: a sync without a cursor takes the whole list of the snapshot as the
\* new set, in its order, and when it has committed every id of the list has
\* a TransactionRecord of the address.
C29_WholePage ==
    \A p \in Procs :
        LET q == proc[p] IN
        (q.lastTxnHash = NoHash /\ (InSync(q) \/ Synced(q))) =>
            /\ q.txnHashes = q.addrStats.txns
            /\ Synced(q) =>
                  \A i \in 1..Len(q.addrStats.txns) :
                      \E t \in transactions :
                          /\ t.txn_hash = q.addrStats.txns[i]
                          /\ t.public_key = q.addr

\* C30: the AddressRecord a committed sync returns is the one stored for the
\* address; its public key is the address, its balance the balance of the
\* snapshot and its last_txn_hash the first id of the snapshot list.
C30_AddressContent ==
    \A p \in Procs :
        LET q == proc[p] IN
        Synced(q) =>
            /\ AddressRows(q.addr) = {q.address}
            /\ q.address.public_key = q.addr
            /\ q.address.balance = q.addrStats.balance
            /\ q.address.last_txn_hash = q.addrStats.txns[1]

\* a sync of a snapshot with two ids and a balance of 1 has committed
C30_Witness ==
    \E p \in Procs :
        LET q == proc[p] IN
        /\ Synced(q)
        /\ Len(q.addrStats.txns) >= 2
        /\ q.addrStats.balance = 1
        /\ q.address.balance = 1
        /\ q.address.last_txn_hash = q.addrStats.txns[1]
        /\ q.address \in addresses

\* C31: after a committed sync every id of the new set has a
\* TransactionRecord of the address in the table and in the returned list,
\* and the returned list has as many records as the new set has ids.
C31_Complete ==
    \A p \in Procs :
        LET q == proc[p] IN
        Synced(q) =>
            /\ \A h \in Range(q.txnHashes) :
                  /\ \E t \in TransactionRows(q.addr) : t.txn_hash = h
                  /\ \E t \in q.newTxns : t.txn_hash = h /\ t.public_key = q.addr
            /\ Cardinality(q.newTxns) = Len(q.txnHashes)

\* every stored transaction row is still stored, field by field
AppendOnly == transactions \subseteq transactions'

\* C32: a TransactionRecord that is stored stays stored with all its fields
\* in every step of every call: the transactions table only grows.
C32_AppendOnly == [][AppendOnly]_vars

\* the table holds rows of one address written by two syncs at different
\* times
C32_Witness ==
    \E t1, t2 \in transactions :
        /\ t1.public_key = t2.public_key
        /\ t1.created_at < t2.created_at

\* the hash of a row is stored under another address as well
Shared(t) == \E u \in transactions : u.txn_hash = t.txn_hash /\ u.public_key # t.public_key

\* C33: no call is rejected because a hash of its snapshot is stored for
\* another address: a committed sync has all its new records in the table,
\* each under its own (hash, address), next to the records the other address
\* has for the same hashes.
C33_CompositeKey ==
    \A p \in Procs :
        LET q == proc[p] IN
        /\ q.err # "AlreadyExists"
        /\ Synced(q) =>
              /\ q.newTxns \subseteq transactions
              /\ \A t \in q.newTxns : t.public_key = q.addr /\ t.txn_hash \in q.txns

\* the second of two addresses with the same two hashes was synced: four
\* records are stored
C33_Witness ==
    \E p \in Procs :
        LET q == proc[p] IN
        /\ Synced(q)
        /\ Cardinality(q.newTxns) = 2
        /\ \A t \in q.newTxns : t \in transactions /\ Shared(t)
        /\ Cardinality(transactions) = 4

\* the transactions of the request that have the id
WithId(id) == {x \in Range(detect.input) : x.id = id}

\* x and y may be an out and its in: equal amounts, y at most 5 minutes after x
Partners(x, y) ==
    /\ x.flow = "out" /\ y.flow = "in"
    /\ x.amount = y.amount
    /\ y.time >= x.time /\ y.time - x.time <= 5

\* C34: every pair of an answer maps an out transaction of the request to an
\* in transaction of the request with the same amount and a timestamp in
\* the window at or after that of the out transaction; a transaction that
\* has no such partner in the request is in no pair.
C34_ValidPairs ==
    Detected =>
        /\ \A e \in detect.resp.entries :
              \E x \in WithId(e[1]), y \in WithId(e[2]) : Partners(x, y)
        /\ \A x \in Range(detect.input) :
              (\A y \in Range(detect.input) : ~ Partners(x, y) /\ ~ Partners(y, x)) =>
                  \A e \in detect.resp.entries : x.id \notin {e[1], e[2]}

\* a request with an out and a later in of another amount on another wallet
\* was answered without a pair
C34_Witness ==
    /\ Detected
    /\ detect.err = ""
    /\ \E x, y \in Range(detect.input) :
         /\ x.flow = "out" /\ y.flow = "in"
         /\ x.wallet # y.wallet
         /\ x.amount # y.amount
         /\ x.time < y.time
    /\ \A x, y \in Range(detect.input) : ~ Partners(x, y)
    /\ detect.resp.entries = {}

\* C35: after the sort the slice holds the transactions of the request, each
\* once, with ascending timestamps and, among equal timestamps, ascending
\* amounts.
C35_Sorted ==
    Detected =>
        /\ Len(detect.txns) = Len(detect.input)
        /\ \A x \in Range(detect.input) :
              Cardinality({i \in 1..Len(detect.txns) : detect.txns[i] = x}) = 1
        /\ \A i, j \in 1..Len(detect.txns) :
              i < j =>
                  \/ detect.txns[i].time < detect.txns[j].time
                  \/ /\ detect.txns[i].time = detect.txns[j].time
                     /\ detect.txns[i].amount <= detect.txns[j].amount

\* a request of three transactions in descending order, two of them with the
\* same timestamp, was sorted
C35_Witness ==
    /\ Detected
    /\ Len(detect.input) = 3
    /\ detect.input[1].time > detect.input[2].time
    /\ detect.input[2].time = detect.input[3].time
    /\ detect.input[2].amount > detect.input[3].amount
    /\ detect.txns = <<detect.input[3], detect.input[2], detect.input[1]>>

\* C36: GetTransactionsByHashes called with more than 10 hashes sends no
\* request and ends with the error "too many hashes"; every list that
\* getTransactions hands to it has at most 10 hashes, so getTransactions
\* never ends with that error.
C36_BatchGuard ==
    \A p \in Procs :
        LET q == proc[p] IN
        /\ (q.op = "GetTransactionsByHashes" /\ Len(q.txnHashes) > HashLimit) =>
              /\ q.reqLog = <<>>
              /\ q.pc \in {"fetch", "done"}
              /\ q.pc = "done" => q.err = "too many hashes"
        /\ q.op = "getTransactions" =>
              /\ q.err # "too many hashes"
              /\ \A c \in 1..Len(Chunks(q)) : ~ TooMany(Chunks(q)[c])
              /\ \A i \in 1..Len(q.reqLog) : Len(q.reqLog[i].hashes) <= HashLimit

\* a list of 12 hashes was refused by the client without a request, and
\* fetched by getTransactions with two requests
C36_Witness ==
    /\ Len(proc["p1"].txnHashes) = 12
    /\ proc["p1"].pc = "done"
    /\ proc["p1"].err = "too many hashes"
    /\ proc["p1"].reqLog = <<>>
    /\ proc["p2"].op = "getTransactions"
    /\ Fetched(proc["p2"])
    /\ Len(proc["p2"].reqLog) = 2
    /\ proc["p2"].txns = 1..12

\* the step leaves the created_at of every stored address row as it is
CreatedAtKept ==
    \A r \in addresses : \A w \in addresses' :
        w.public_key = r.public_key => w.created_at = r.created_at

\* C37: the created_at of an address row is set when the row is first written
\* and no later sync of the address changes it.
C37_CreatedAtStable == [][CreatedAtKept]_vars

\* the call got a snapshot whose list of transaction ids is empty
EmptyHistory(q) ==
    /\ q.op \in SyncOps
    /\ q.statsResp = OKResponse
    /\ q.pc \in {"fetch", "cooldown", "commit", "done"}
    /\ q.addrStats.txns = <<>>

\* C38: a sync whose snapshot has an empty list of transaction ids sends no
\* detail request and ends with an address record and no new transactions or
\* with an error, never with a panic.
C38_EmptyHistory ==
    \A p \in Procs :
        LET q == proc[p] IN
        EmptyHistory(q) =>
            /\ q.reqLog = <<>>
            /\ q.pc \in {"fetch", "commit", "done"}
            /\ q.pc = "done" => q.err # "panic"

\* C39: the answer of transactions(addr) holds the records stored for the
\* address, those stored before the call and those the call has synced, each
\* once and each with the hash it is stored under.
C39_FullHistory ==
    \A p \in Procs :
        LET q == proc[p] IN
        (q.op = "transactions" /\ Synced(q)) =>
            /\ q.txnsRecs = TransactionRows(q.addr)
            /\ \A r \in q.txnsRecs : r.txn_hash # NoHash
====
